---- MODULE Spec2Model ----
(***************************************************************************)
(* Task service of ConstructionProgressTrackerWEB (src/app/main.py): the   *)
(* connection pool, validate_task_data, and the four request handlers,     *)
(* each a sequence of steps of one thread of the server; and the handlers  *)
(* of the non-pooled service (src/backend/app.py), which open and close a  *)
(* connection of their own.                                                *)
(*                                                                         *)
(* Strings are sequences of one-character strings; a JSON payload is a     *)
(* function from its keys to tagged values (string, integer, null).        *)
(***************************************************************************)
EXTENDS Integers, Sequences, FiniteSets, TLC

(* ------------------------------ bounds --------------------------------- *)
\* Requests the server accepts in one behaviour.
MaxReqs == 3
\* Connections of the pool in the model (maxconn is 20 in the source).
MaxConn == 1

(* --------------------------- program constants ------------------------- *)
NameMin == 3
NameMax == 100
ProgressMin == 0
ProgressMax == 100

(* ------------------------------ values --------------------------------- *)
JStr(s) == [t |-> "str", v |-> s]
JInt(n) == [t |-> "int", v |-> n]
JNull == [t |-> "none", v |-> 0]
IsStr(x) == x.t = "str"
IsInt(x) == x.t = "int"
\* Python truthiness of a JSON value.
Truthy(x) ==
  CASE x.t = "str" -> Len(x.v) > 0
    [] x.t = "int" -> x.v # 0
    [] OTHER -> FALSE

Has(data, k) == k \in DOMAIN data
\* data.get(k, default)
Get(data, k, default) == IF Has(data, k) THEN data[k] ELSE default

(* ----------------------------- characters ------------------------------ *)
LowerLetters ==
  {"a","b","c","d","e","f","g","h","i","j","k","l","m",
   "n","o","p","q","r","s","t","u","v","w","x","y","z"}
UpperLetters ==
  {"A","B","C","D","E","F","G","H","I","J","K","L","M",
   "N","O","P","Q","R","S","T","U","V","W","X","Y","Z"}
DigitChars == {"0","1","2","3","4","5","6","7","8","9"}
\* \w of the re module
IsWordChar(c) == c \in LowerLetters \cup UpperLetters \cup DigitChars \cup {"_"}
\* \s of the re module
IsSpaceChar(c) == c \in {" ", "\n", "\t", "\r"}
\* The class [\w\s\-()]
NameClass(c) == IsWordChar(c) \/ IsSpaceChar(c) \/ c \in {"-", "(", ")"}

\* re.IGNORECASE folding of one character
Lower(c) ==
  CASE c = "A" -> "a" [] c = "B" -> "b" [] c = "C" -> "c" [] c = "D" -> "d"
    [] c = "E" -> "e" [] c = "F" -> "f" [] c = "G" -> "g" [] c = "H" -> "h"
    [] c = "I" -> "i" [] c = "J" -> "j" [] c = "K" -> "k" [] c = "L" -> "l"
    [] c = "M" -> "m" [] c = "N" -> "n" [] c = "O" -> "o" [] c = "P" -> "p"
    [] c = "Q" -> "q" [] c = "R" -> "r" [] c = "S" -> "s" [] c = "T" -> "t"
    [] c = "U" -> "u" [] c = "V" -> "v" [] c = "W" -> "w" [] c = "X" -> "x"
    [] c = "Y" -> "y" [] c = "Z" -> "z" [] OTHER -> c

\* s repeated n times
RECURSIVE Rep(_, _)
Rep(s, n) == IF n <= 0 THEN <<>> ELSE s \o Rep(s, n - 1)

(* ------------------------ name pattern (line 40) ----------------------- *)
\* re.match(r'^[\w\s\-()]{3,100}$', s): some k in 3..100 leading characters
\* of the class, followed by the end of the string; '$' also matches just
\* before a newline that ends the string.
AtDollar(s, k) ==
  \/ k = Len(s)
  \/ k = Len(s) - 1 /\ s[Len(s)] = "\n"

NameMatches(s) ==
  \E k \in NameMin..NameMax :
    /\ k <= Len(s)
    /\ AtDollar(s, k)
    /\ \A i \in 1..k : NameClass(s[i])

(* ---------------------- injection denylist (line 57) ------------------- *)
Keywords ==
  { <<";">>, <<"-","-">>,
    <<"u","n","i","o","n">>, <<"s","e","l","e","c","t">>,
    <<"i","n","s","e","r","t">>, <<"u","p","d","a","t","e">>,
    <<"d","e","l","e","t","e">>, <<"d","r","o","p">> }

\* kw occurs in s at position i, letter case ignored
OccursAt(s, kw, i) ==
  /\ i + Len(kw) - 1 <= Len(s)
  /\ \A j \in 1..Len(kw) : Lower(s[i + j - 1]) = kw[j]

\* sql_injection_pattern.search(s)
InjectionSearch(s) ==
  \E kw \in Keywords : \E i \in 1..Len(s) : OccursAt(s, kw, i)

(* ------------------- dates: strptime, strftime, order ------------------ *)
DigitVal(c) ==
  CASE c = "0" -> 0 [] c = "1" -> 1 [] c = "2" -> 2 [] c = "3" -> 3
    [] c = "4" -> 4 [] c = "5" -> 5 [] c = "6" -> 6 [] c = "7" -> 7
    [] c = "8" -> 8 [] c = "9" -> 9 [] OTHER -> 0
DigitChar(n) ==
  CASE n = 0 -> "0" [] n = 1 -> "1" [] n = 2 -> "2" [] n = 3 -> "3"
    [] n = 4 -> "4" [] n = 5 -> "5" [] n = 6 -> "6" [] n = 7 -> "7"
    [] n = 8 -> "8" [] OTHER -> "9"

AllDigits(s) == \A i \in 1..Len(s) : s[i] \in DigitChars
RECURSIVE NumVal(_)
NumVal(s) ==
  IF Len(s) = 0 THEN 0
  ELSE 10 * NumVal(SubSeq(s, 1, Len(s) - 1)) + DigitVal(s[Len(s)])

\* n as exactly w decimal digits, zero padded
RECURSIVE Fmt(_, _)
Fmt(n, w) == IF w = 0 THEN <<>> ELSE Fmt(n \div 10, w - 1) \o <<DigitChar(n % 10)>>

IsLeap(y) == (y % 4 = 0 /\ y % 100 # 0) \/ y % 400 = 0
DaysInMonth(y, m) ==
  CASE m \in {1, 3, 5, 7, 8, 10, 12} -> 31
    [] m \in {4, 6, 9, 11} -> 30
    [] OTHER -> IF IsLeap(y) THEN 29 ELSE 28
RECURSIVE DaysBeforeMonth(_, _)
DaysBeforeMonth(y, m) ==
  IF m <= 1 THEN 0 ELSE DaysBeforeMonth(y, m - 1) + DaysInMonth(y, m - 1)
\* date.toordinal()
Ordinal(d) ==
  LET y == d[1] - 1
  IN  365 * y + (y \div 4) - (y \div 100) + (y \div 400)
        + DaysBeforeMonth(d[1], d[2]) + d[3]

\* The positions of '-' in s
Hyphens(s) == {i \in 1..Len(s) : s[i] = "-"}
\* %Y: four digits
YearField(s) == Len(s) = 4 /\ AllDigits(s)
\* %m: 1[0-2] | 0[1-9] | [1-9]
MonthField(s) ==
  /\ Len(s) \in {1, 2}
  /\ AllDigits(s)
  /\ NumVal(s) \in 1..12
\* %d: 3[01] | [12]\d | 0[1-9] | [1-9] | ' '[1-9]
DayField(s) ==
  \/ /\ Len(s) \in {1, 2}
     /\ AllDigits(s)
     /\ NumVal(s) \in 1..31
  \/ /\ Len(s) = 2
     /\ s[1] = " "
     /\ s[2] \in DigitChars \ {"0"}
DayVal(s) == IF s[1] = " " THEN DigitVal(s[2]) ELSE NumVal(s)

NoDate == <<0, 0, 0>>
\* datetime.strptime(s, '%Y-%m-%d'): the date, or NoDate for ValueError
Strptime(s) ==
  LET hs == Hyphens(s) IN
  IF Cardinality(hs) # 2 THEN NoDate
  ELSE
    LET h1 == CHOOSE i \in hs : \A j \in hs : i <= j
        h2 == CHOOSE i \in hs : \A j \in hs : j <= i
        ys == SubSeq(s, 1, h1 - 1)
        ms == SubSeq(s, h1 + 1, h2 - 1)
        ds == SubSeq(s, h2 + 1, Len(s))
    IN  IF YearField(ys) /\ MonthField(ms) /\ DayField(ds)
          THEN LET y == NumVal(ys)
                   m == NumVal(ms)
                   d == DayVal(ds)
               IN  IF y >= 1 /\ d <= DaysInMonth(y, m) THEN <<y, m, d>> ELSE NoDate
          ELSE NoDate

\* date.strftime('%Y-%m-%d')
Strftime(d) == Fmt(d[1], 4) \o <<"-">> \o Fmt(d[2], 2) \o <<"-">> \o Fmt(d[3], 2)

\* deadline_dt < datetime.now(timezone.utc), deadline_dt being midnight UTC
\* of date d and clock the current UTC date and second of the day
DeadlineBeforeNow(d, clock) ==
  \/ Ordinal(d) < Ordinal(clock.date)
  \/ Ordinal(d) = Ordinal(clock.date) /\ 0 < clock.tod

(* --------------------- validate_task_data (38-62) ---------------------- *)
S_Low == <<"L","o","w">>
S_Medium == <<"M","e","d","i","u","m">>
S_High == <<"H","i","g","h">>
Priorities == {S_Low, S_Medium, S_High}

ErrName == "Invalid task name (3-100 alphanumeric characters)"
ErrPriority == "Invalid priority value"
ErrPast == "Deadline cannot be in the past"
ErrFormat == "Invalid deadline format. Use YYYY-MM-DD."
ErrInjection == "Invalid input detected"

\* A returned (body, status) pair; Accept is the None of the source; Raised
\* is an exception leaving the function (re.match or strptime handed a value
\* that is not a string).
Reject(msg) == [status |-> 400, error |-> msg]
Accept == [status |-> 0, error |-> "None"]
Raised == [status |-> -1, error |-> "TypeError"]

NameCheck(data) ==
  LET name == Get(data, "name", JStr(<<>>))
  IN  IF ~IsStr(name) THEN Raised
      ELSE IF ~NameMatches(name.v) THEN Reject(ErrName)
      ELSE Accept

PriorityCheck(data) ==
  LET p == Get(data, "priority", JNull)
  IN  IF ~(IsStr(p) /\ p.v \in Priorities) THEN Reject(ErrPriority) ELSE Accept

DeadlineCheck(data, clock) ==
  IF Has(data, "deadline") /\ Truthy(data["deadline"])
    THEN IF ~IsStr(data["deadline"]) THEN Raised
         ELSE LET d == Strptime(data["deadline"].v)
              IN  IF d = NoDate THEN Reject(ErrFormat)
                  ELSE IF DeadlineBeforeNow(d, clock) THEN Reject(ErrPast)
                  ELSE Accept
    ELSE Accept

InjectionCheck(data) ==
  IF \E k \in DOMAIN data : IsStr(data[k]) /\ InjectionSearch(data[k].v)
    THEN Reject(ErrInjection)
    ELSE Accept

validate_task_data(data, clock) ==
  IF NameCheck(data) # Accept THEN NameCheck(data)
  ELSE IF PriorityCheck(data) # Accept THEN PriorityCheck(data)
  ELSE IF DeadlineCheck(data, clock) # Accept THEN DeadlineCheck(data, clock)
  ELSE InjectionCheck(data)

(* ------------------------------- state --------------------------------- *)
VARIABLES
  tasks,     \* the committed rows of table tasks: id -> row
  nextId,    \* the next value of the id sequence of the table
  used,      \* the threads holding a connection of the pool (pool._used)
  idle,      \* the number of idle connections kept by the pool (pool._pool)
  clock,     \* the current UTC date and second of the day
  nreq,      \* the number of requests accepted so far
  pc,        \* the position of each thread in its handler
  req,       \* the request each thread is serving
  conn,      \* the handler's variable conn is a connection (not None)
  tx,        \* the transaction open on the thread's connection
  rowcount,  \* cursor.rowcount of the executed statement (-1 before it)
  exc,       \* the exception last raised in the handler
  resp,      \* the response the handler returns
  released,  \* how often the handler called release_db_connection
  wrote,     \* a step of the request has changed the committed rows
  prev,      \* the previous call of the thread and its status
  vdata,     \* the payload given to validate_task_data on its own
  vres,      \* what validate_task_data returned for vdata
  detail,    \* the text the store gives its errors in this run (str(e))
  logged,    \* what the handler of each thread wrote to app.logger
  opened     \* non-pooled service: the connections opened and not closed

vars == <<tasks, nextId, used, idle, clock, nreq, pc, req, conn, tx, rowcount,
          exc, resp, released, wrote, prev, vdata, vres, detail, logged,
          opened>>
poolVars == <<used, idle>>
valVars == <<vdata, vres>>
logVars == <<detail, logged>>

MinConn == 1
\* One thread more than the pool has connections
NumThreads == MaxConn + 1
Threads == 1..NumThreads

NoRow == [name |-> <<>>, progress |-> 0, assigned_to |-> JNull,
          deadline |-> NoDate, priority |-> <<>>]
NoTx == [open |-> FALSE, id |-> 0, del |-> FALSE, row |-> NoRow]
NoReq == [op |-> "none", id |-> 0, data |-> <<>>]
NoResp == [status |-> 0, body |-> "", id |-> 0, rows |-> <<>>]
NoPrev == [op |-> "none", id |-> 0, data |-> <<>>, status |-> 0]
EmptyTable == [i \in {} |-> NoRow]

\* jsonify(...), status
Response(status, body) == [status |-> status, body |-> body, id |-> 0, rows |-> <<>>]
\* The 500 of the framework for an exception that leaves the handler (69-71)
internal_error == Response(500, "Internal server error")

\* The store's conversion of a parameter to the DATE column: NULL for None
ToDate(x) == IF IsStr(x) THEN Strptime(x.v) ELSE NoDate
\* A parameter the store cannot convert to DATE ('' passes line 48)
BadDate(x) == IsStr(x) /\ Strptime(x.v) = NoDate

\* The row of the INSERT of add_task (108-118)
InsertRow(data) ==
  [name |-> data["name"].v,
   progress |-> Get(data, "progress", JInt(0)).v,
   assigned_to |-> Get(data, "assigned_to", JNull),
   deadline |-> ToDate(Get(data, "deadline", JNull)),
   priority |-> data["priority"].v]

\* The committed rows once transaction x commits
Apply(table, x) ==
  IF ~x.open \/ x.id = 0 THEN table
  ELSE IF x.del THEN [i \in DOMAIN table \ {x.id} |-> table[i]]
  ELSE [i \in DOMAIN table \cup {x.id} |-> IF i = x.id THEN x.row ELSE table[i]]

\* Another transaction holds the lock of row id
RowLocked(t, id) ==
  \E u \in Threads \ {t} : tx[u].open /\ tx[u].id = id /\ id \in DOMAIN tasks

\* Every step of thread t records whether it changed the committed rows
Track(t) == wrote' = [wrote EXCEPT ![t] = wrote[t] \/ tasks' # tasks]

(* ------------------------------ requests ------------------------------- *)
Abc == <<"a","b","c">>
Ab == <<"a","b">>
Field(k, x) == k :> x
PValid == Field("name", JStr(Abc)) @@ Field("priority", JStr(S_Low))
PProgress150 == PValid @@ Field("progress", JInt(150))
PShortName == Field("name", JStr(Ab)) @@ Field("priority", JStr(S_Low))
PEmptyDeadline == PValid @@ Field("deadline", JStr(<<>>))
NoFields == [k \in {} |-> JNull]

\* The bodies of the POST and PUT requests, and the ids of the paths
AddPayloads == {PValid, PProgress150, PShortName, PEmptyDeadline}
UpdatePayloads ==
  {Field("progress", JInt(50)), Field("progress", JInt(101)),
   Field("progress", JInt(0 - 1)), NoFields}
TaskIds == 1..2

Row1 == [name |-> Abc, progress |-> 0, assigned_to |-> JNull,
         deadline |-> NoDate, priority |-> S_Low]
InitTables == {EmptyTable, (1 :> Row1)}
Today == [date |-> <<2024, 2, 29>>, tod |-> 43200]

(* --------------------------- pool (21-35) ------------------------------ *)
\* PoolCanGive with the limit tested one too late
PoolGivesOneMore == idle > 0 \/ Cardinality(used) < MaxConn + 1

\* pool.getconn() hands out an idle connection, or opens one below maxconn
PoolCanGive == idle > 0 \/ Cardinality(used) < MaxConn

\* get_db_connection() returns a connection to thread t
get_db_connection(t) ==
  /\ PoolCanGive
  /\ used' = used \cup {t}
  /\ idle' = IF idle > 0 THEN idle - 1 ELSE idle

\* release_db_connection(conn): pool.putconn keeps up to minconn live
\* connections and closes the others; closed is the state of the connection
release_db_connection(t, closed) ==
  /\ used' = used \ {t}
  /\ idle' = IF idle < MinConn /\ ~closed THEN idle + 1 ELSE idle
  /\ released' = [released EXCEPT ![t] = @ + 1]

(* --------------------------- handler steps ----------------------------- *)
Answer(t, r) ==
  /\ resp' = [resp EXCEPT ![t] = r]
  /\ pc' = [pc EXCEPT ![t] = "done"]

Arrive(t, r) ==
  /\ pc[t] = "idle"
  /\ nreq < MaxReqs
  /\ nreq' = nreq + 1
  /\ req' = [req EXCEPT ![t] = r]

\* add_task going on to the store whatever validate_task_data returned
add_task_unvalidated(t, data) ==
  /\ Arrive(t, [op |-> "add", id |-> 0, data |-> data])
  /\ pc' = [pc EXCEPT ![t] = "getconn"]
  /\ UNCHANGED tasks
  /\ Track(t)
  /\ UNCHANGED <<nextId, poolVars, clock, conn, tx, rowcount, released,
                 resp, exc, prev, valVars, logVars, opened>>

\* add_task, lines 99-104
add_task(t, data) ==
  /\ Arrive(t, [op |-> "add", id |-> 0, data |-> data])
  /\ LET validation == validate_task_data(data, clock) IN
       IF validation = Raised
         THEN /\ Answer(t, internal_error)
              /\ exc' = [exc EXCEPT ![t] = "TypeError"]
       ELSE IF validation # Accept
         THEN /\ Answer(t, Response(400, validation.error))
              /\ UNCHANGED exc
       ELSE /\ pc' = [pc EXCEPT ![t] = "getconn"]
            /\ UNCHANGED <<resp, exc>>
  /\ UNCHANGED tasks
  /\ Track(t)
  /\ UNCHANGED <<nextId, poolVars, clock, conn, tx, rowcount, released,
                 prev, valVars, logVars, opened>>

\* The range check with its lower bound left out
ProgressAboveMax(data) ==
  Has(data, "progress") /\ ~(data["progress"].v <= ProgressMax)

\* The range check taking a payload without progress for out of range
ProgressRequired(data) ==
  ~Has(data, "progress") \/ ~(ProgressMin <= data["progress"].v /\ data["progress"].v <= ProgressMax)

\* The range check of line 133
ProgressOutOfRange(data) ==
  Has(data, "progress") /\ ~(ProgressMin <= data["progress"].v /\ data["progress"].v <= ProgressMax)

\* update_task, lines 132-136
update_task(t, id, data) ==
  /\ Arrive(t, [op |-> "update", id |-> id, data |-> data])
  /\ IF Has(data, "progress") /\ ~IsInt(data["progress"])
       THEN /\ Answer(t, internal_error)
            /\ exc' = [exc EXCEPT ![t] = "TypeError"]
     ELSE IF ProgressOutOfRange(data)
       THEN /\ Answer(t, Response(400, "Progress must be between 0-100"))
            /\ UNCHANGED exc
     ELSE /\ pc' = [pc EXCEPT ![t] = "getconn"]
          /\ UNCHANGED <<resp, exc>>
  /\ UNCHANGED tasks
  /\ Track(t)
  /\ UNCHANGED <<nextId, poolVars, clock, conn, tx, rowcount, released,
                 prev, valVars, logVars, opened>>

\* delete_task, lines 160-162
delete_task(t, id) ==
  /\ Arrive(t, [op |-> "delete", id |-> id, data |-> NoFields])
  /\ pc' = [pc EXCEPT ![t] = "getconn"]
  /\ UNCHANGED tasks
  /\ Track(t)
  /\ UNCHANGED <<nextId, poolVars, clock, conn, tx, rowcount, released,
                 resp, exc, prev, valVars, logVars, opened>>

\* get_tasks, lines 75-77
get_tasks(t) ==
  /\ Arrive(t, [op |-> "list", id |-> 0, data |-> NoFields])
  /\ pc' = [pc EXCEPT ![t] = "getconn"]
  /\ UNCHANGED tasks
  /\ Track(t)
  /\ UNCHANGED <<nextId, poolVars, clock, conn, tx, rowcount, released,
                 resp, exc, prev, valVars, logVars, opened>>

\* conn = get_db_connection() (lines 78, 106, 138, 163): a connection, or
\* PoolError when the pool is exhausted, or OperationalError when a new
\* connection cannot be opened
GetConn(t) ==
  /\ pc[t] = "getconn"
  /\ \/ /\ get_db_connection(t)
        /\ conn' = [conn EXCEPT ![t] = TRUE]
        /\ pc' = [pc EXCEPT ![t] = "execute"]
        /\ UNCHANGED exc
     \/ /\ ~PoolCanGive
        /\ exc' = [exc EXCEPT ![t] = "PoolError"]
        /\ pc' = [pc EXCEPT ![t] = "except"]
        /\ UNCHANGED <<poolVars, conn>>
     \/ /\ idle = 0 /\ PoolCanGive
        /\ exc' = [exc EXCEPT ![t] = "OperationalError"]
        /\ pc' = [pc EXCEPT ![t] = "except"]
        /\ UNCHANGED <<poolVars, conn>>
  /\ UNCHANGED tasks
  /\ Track(t)
  /\ UNCHANGED <<nextId, clock, nreq, req, tx, rowcount, resp, released,
                 prev, valVars, logVars, opened>>

\* The transaction a statement opens on the connection
OpenTx(id, del, row) == [open |-> TRUE, id |-> id, del |-> del, row |-> row]
\* A transaction that has run a statement changing no row
IdleTx == OpenTx(0, FALSE, NoRow)

\* The statement raises: exc is DatabaseError (the statement is refused, the
\* transaction stays open and failed) or OperationalError (the connection
\* is lost and the store drops the transaction)
Raise(t, e) ==
  /\ exc' = [exc EXCEPT ![t] = e]
  /\ pc' = [pc EXCEPT ![t] = "except"]
  /\ tx' = [tx EXCEPT ![t] = IF e = "DatabaseError" THEN IdleTx ELSE NoTx]

StoreErrors == {"DatabaseError", "OperationalError"}

\* cursor.execute(INSERT ... RETURNING id); cursor.fetchone() (107-119)
ExecuteInsert(t) ==
  LET data == req[t].data IN
  \/ /\ ~BadDate(Get(data, "deadline", JNull))
     /\ tx' = [tx EXCEPT ![t] = OpenTx(nextId, FALSE, InsertRow(data))]
     /\ nextId' = nextId + 1
     /\ rowcount' = [rowcount EXCEPT ![t] = 1]
     /\ pc' = [pc EXCEPT ![t] = "commit"]
     /\ UNCHANGED <<exc, resp>>
  \/ /\ \E e \in StoreErrors :
          /\ BadDate(Get(data, "deadline", JNull)) => e = "DatabaseError"
          /\ Raise(t, e)
     /\ UNCHANGED <<nextId, rowcount, resp>>

\* ExecuteUpdate for a statement that sets every column from the payload,
\* the columns it does not carry reset to their defaults
ExecuteUpdateWholeRow(t) ==
  LET data == req[t].data
      id == req[t].id
  IN
  IF ~Has(data, "progress")
    THEN /\ exc' = [exc EXCEPT ![t] = "KeyError"]
         /\ pc' = [pc EXCEPT ![t] = "except"]
         /\ UNCHANGED <<tx, nextId, rowcount, resp>>
    ELSE
      \/ /\ ~RowLocked(t, id)
         /\ IF id \in DOMAIN tasks
              THEN /\ tx' = [tx EXCEPT ![t] = OpenTx(id, FALSE,
                                [NoRow EXCEPT !.progress = data["progress"].v])]
                   /\ rowcount' = [rowcount EXCEPT ![t] = 1]
                   /\ pc' = [pc EXCEPT ![t] = "commit"]
                   /\ UNCHANGED resp
              ELSE /\ tx' = [tx EXCEPT ![t] = IdleTx]
                   /\ rowcount' = [rowcount EXCEPT ![t] = 0]
                   /\ resp' = [resp EXCEPT ![t] = Response(404, "Task not found")]
                   /\ pc' = [pc EXCEPT ![t] = "finally"]
         /\ UNCHANGED <<exc, nextId>>
      \/ /\ \E e \in StoreErrors : Raise(t, e)
         /\ UNCHANGED <<nextId, rowcount, resp>>

\* cursor.execute(UPDATE tasks SET progress = %s WHERE id = %s) and the
\* test of cursor.rowcount (139-147)
ExecuteUpdate(t) ==
  LET data == req[t].data
      id == req[t].id
  IN
  IF ~Has(data, "progress")
    THEN /\ exc' = [exc EXCEPT ![t] = "KeyError"]
         /\ pc' = [pc EXCEPT ![t] = "except"]
         /\ UNCHANGED <<tx, nextId, rowcount, resp>>
    ELSE
      \/ /\ ~RowLocked(t, id)
         /\ IF id \in DOMAIN tasks
              THEN /\ tx' = [tx EXCEPT ![t] = OpenTx(id, FALSE,
                                [tasks[id] EXCEPT !.progress = data["progress"].v])]
                   /\ rowcount' = [rowcount EXCEPT ![t] = 1]
                   /\ pc' = [pc EXCEPT ![t] = "commit"]
                   /\ UNCHANGED resp
              ELSE /\ tx' = [tx EXCEPT ![t] = IdleTx]
                   /\ rowcount' = [rowcount EXCEPT ![t] = 0]
                   /\ resp' = [resp EXCEPT ![t] = Response(404, "Task not found")]
                   /\ pc' = [pc EXCEPT ![t] = "finally"]
         /\ UNCHANGED <<exc, nextId>>
      \/ /\ \E e \in StoreErrors : Raise(t, e)
         /\ UNCHANGED <<nextId, rowcount, resp>>

\* ExecuteDelete without the test of cursor.rowcount
ExecuteDeleteUnchecked(t) ==
  LET id == req[t].id IN
  \/ /\ ~RowLocked(t, id)
     /\ tx' = [tx EXCEPT ![t] =
                IF id \in DOMAIN tasks THEN OpenTx(id, TRUE, NoRow) ELSE IdleTx]
     /\ rowcount' = [rowcount EXCEPT ![t] = IF id \in DOMAIN tasks THEN 1 ELSE 0]
     /\ pc' = [pc EXCEPT ![t] = "commit"]
     /\ UNCHANGED <<resp, exc, nextId>>
  \/ /\ \E e \in StoreErrors : Raise(t, e)
     /\ UNCHANGED <<nextId, rowcount, resp>>

\* cursor.execute(DELETE FROM tasks WHERE id = %s) and the test of
\* cursor.rowcount (164-168)
ExecuteDelete(t) ==
  LET id == req[t].id IN
  \/ /\ ~RowLocked(t, id)
     /\ IF id \in DOMAIN tasks
          THEN /\ tx' = [tx EXCEPT ![t] = OpenTx(id, TRUE, NoRow)]
               /\ rowcount' = [rowcount EXCEPT ![t] = 1]
               /\ pc' = [pc EXCEPT ![t] = "commit"]
               /\ UNCHANGED resp
          ELSE /\ tx' = [tx EXCEPT ![t] = IdleTx]
               /\ rowcount' = [rowcount EXCEPT ![t] = 0]
               /\ resp' = [resp EXCEPT ![t] = Response(404, "Task not found")]
               /\ pc' = [pc EXCEPT ![t] = "finally"]
     /\ UNCHANGED <<exc, nextId>>
  \/ /\ \E e \in StoreErrors : Raise(t, e)
     /\ UNCHANGED <<nextId, rowcount, resp>>

\* The ids of a table in ascending order (ORDER BY id)
RECURSIVE SortedIds(_)
SortedIds(ids) ==
  IF ids = {} THEN <<>>
  ELSE LET m == CHOOSE i \in ids : \A j \in ids : i <= j
       IN  <<m>> \o SortedIds(ids \ {m})

\* One task of the response: the row and its id, the deadline as text
TaskJson(id, row) ==
  [id |-> id, name |-> row.name, progress |-> row.progress,
   assigned_to |-> row.assigned_to,
   deadline |-> IF row.deadline # NoDate THEN JStr(Strftime(row.deadline)) ELSE JNull,
   priority |-> row.priority]

\* ExecuteSelect for a query without ORDER BY id, the rows coming back in
\* descending order of id
ExecuteSelectUnordered(t) ==
  \/ /\ tx' = [tx EXCEPT ![t] = IdleTx]
     /\ rowcount' = [rowcount EXCEPT ![t] = Cardinality(DOMAIN tasks)]
     /\ resp' = [resp EXCEPT ![t] =
          [status |-> 200, body |-> "tasks", id |-> 0,
           rows |-> [n \in 1..Cardinality(DOMAIN tasks) |->
                      TaskJson(SortedIds(DOMAIN tasks)[Cardinality(DOMAIN tasks) + 1 - n],
                               tasks[SortedIds(DOMAIN tasks)[Cardinality(DOMAIN tasks) + 1 - n]])]]]
     /\ pc' = [pc EXCEPT ![t] = "finally"]
     /\ UNCHANGED <<exc, nextId>>
  \/ /\ \E e \in StoreErrors : Raise(t, e)
     /\ UNCHANGED <<nextId, rowcount, resp>>

\* cursor.execute(SELECT ... ORDER BY id), fetchall and the return (79-89)
ExecuteSelect(t) ==
  \/ /\ tx' = [tx EXCEPT ![t] = IdleTx]
     /\ rowcount' = [rowcount EXCEPT ![t] = Cardinality(DOMAIN tasks)]
     /\ resp' = [resp EXCEPT ![t] =
          [status |-> 200, body |-> "tasks", id |-> 0,
           rows |-> [n \in 1..Cardinality(DOMAIN tasks) |->
                      TaskJson(SortedIds(DOMAIN tasks)[n],
                               tasks[SortedIds(DOMAIN tasks)[n]])]]]
     /\ pc' = [pc EXCEPT ![t] = "finally"]
     /\ UNCHANGED <<exc, nextId>>
  \/ /\ \E e \in StoreErrors : Raise(t, e)
     /\ UNCHANGED <<nextId, rowcount, resp>>

\* Execute on a connection in autocommit mode: the statement's change is
\* committed as it runs
ExecuteAutocommit(t) ==
  /\ pc[t] = "execute"
  /\ CASE req[t].op = "add" -> ExecuteInsert(t)
       [] req[t].op = "list" -> ExecuteSelect(t)
       [] req[t].op = "update" -> ExecuteUpdate(t)
       [] OTHER -> ExecuteDelete(t)
  /\ tasks' = Apply(tasks, tx'[t])
  /\ Track(t)
  /\ UNCHANGED <<poolVars, clock, nreq, req, conn, released, prev, valVars, logVars, opened>>

Execute(t) ==
  /\ pc[t] = "execute"
  /\ CASE req[t].op = "add" -> ExecuteInsert(t)
       [] req[t].op = "list" -> ExecuteSelect(t)
       [] req[t].op = "update" -> ExecuteUpdate(t)
       [] OTHER -> ExecuteDelete(t)
  /\ UNCHANGED tasks
  /\ Track(t)
  /\ UNCHANGED <<poolVars, clock, nreq, req, conn, released, prev, valVars, logVars, opened>>

SuccessResponse(t) ==
  CASE req[t].op = "add" ->
         [status |-> 201, body |-> "Task added successfully", id |-> tx[t].id,
          rows |-> <<>>]
    [] req[t].op = "update" -> Response(200, "Task updated successfully")
    [] OTHER -> Response(200, "Task deleted successfully")

\* conn.commit() and the return that follows it (120-121, 149-150, 170-171)
Commit(t) ==
  /\ pc[t] = "commit"
  /\ \/ /\ tasks' = Apply(tasks, tx[t])
        /\ tx' = [tx EXCEPT ![t] = NoTx]
        /\ resp' = [resp EXCEPT ![t] = SuccessResponse(t)]
        /\ pc' = [pc EXCEPT ![t] = "finally"]
        /\ UNCHANGED exc
     \/ /\ \E e \in StoreErrors :
             /\ exc' = [exc EXCEPT ![t] = e]
             /\ tx' = [tx EXCEPT ![t] = NoTx]
        /\ pc' = [pc EXCEPT ![t] = "except"]
        /\ UNCHANGED <<tasks, resp>>
  /\ Track(t)
  /\ UNCHANGED <<nextId, poolVars, clock, nreq, req, conn, rowcount, released,
                 prev, valVars, logVars, opened>>

FailureBody(t) ==
  CASE req[t].op = "add" -> "Failed to create task"
    [] req[t].op = "list" -> "Failed to retrieve tasks"
    [] req[t].op = "update" -> "Failed to update task"
    [] OTHER -> "Failed to delete task"

\* conn.rollback() of the except clause; conn is the handler's variable
Rollback(t) == tx' = [tx EXCEPT ![t] = NoTx]

\* The texts of the store's errors
ConnectionRefused == "connection refused"
NoSuchRelation == "relation tasks does not exist"
ErrorDetails == {ConnectionRefused, NoSuchRelation}

\* str(e) of the exception caught: the store's text for an error of the
\* store, the text of the pool or of the interpreter for the others
ErrorText(t) == IF exc[t] \in StoreErrors THEN detail ELSE exc[t]

\* Except answering with the text of the exception it caught
ExceptEchoesError(t) ==
  /\ pc[t] = "except"
  /\ IF req[t].op = "list"
       THEN /\ resp' = [resp EXCEPT ![t] = Response(500, ErrorText(t))]
            /\ UNCHANGED <<exc, tx>>
     ELSE IF ~conn[t]
       THEN /\ exc' = [exc EXCEPT ![t] = "AttributeError"]
            /\ resp' = [resp EXCEPT ![t] = internal_error]
            /\ UNCHANGED tx
     ELSE IF exc[t] = "OperationalError"
       THEN /\ exc' = [exc EXCEPT ![t] = "InterfaceError"]
            /\ resp' = [resp EXCEPT ![t] = internal_error]
            /\ UNCHANGED tx
     ELSE /\ Rollback(t)
          /\ resp' = [resp EXCEPT ![t] = Response(500, ErrorText(t))]
          /\ UNCHANGED exc
  /\ logged' = [logged EXCEPT ![t] = ErrorText(t)]
  /\ pc' = [pc EXCEPT ![t] = "finally"]
  /\ UNCHANGED tasks
  /\ Track(t)
  /\ UNCHANGED <<nextId, poolVars, clock, nreq, req, conn, rowcount, released,
                 prev, valVars, detail, opened>>

\* except Exception (122-125, 151-154, 172-175; 90-92 of get_tasks, which
\* has no rollback): conn.rollback() raises
\* AttributeError when conn is None and InterfaceError when the connection
\* is lost; the exception then leaves the handler after its finally clause
Except(t) ==
  /\ pc[t] = "except"
  /\ IF req[t].op = "list"
       THEN /\ resp' = [resp EXCEPT ![t] = Response(500, FailureBody(t))]
            /\ UNCHANGED <<exc, tx>>
     ELSE IF ~conn[t]
       THEN /\ exc' = [exc EXCEPT ![t] = "AttributeError"]
            /\ resp' = [resp EXCEPT ![t] = internal_error]
            /\ UNCHANGED tx
     ELSE IF exc[t] = "OperationalError"
       THEN /\ exc' = [exc EXCEPT ![t] = "InterfaceError"]
            /\ resp' = [resp EXCEPT ![t] = internal_error]
            /\ UNCHANGED tx
     ELSE /\ Rollback(t)
          /\ resp' = [resp EXCEPT ![t] = Response(500, FailureBody(t))]
          /\ UNCHANGED exc
  /\ logged' = [logged EXCEPT ![t] = ErrorText(t)]
  /\ pc' = [pc EXCEPT ![t] = "finally"]
  /\ UNCHANGED tasks
  /\ Track(t)
  /\ UNCHANGED <<nextId, poolVars, clock, nreq, req, conn, rowcount, released,
                 prev, valVars, detail, opened>>

\* Finally with the release left out on the not-found return
FinallyLeaksOnNotFound(t) ==
  /\ pc[t] = "finally"
  /\ IF conn[t] /\ resp[t].status # 404
       THEN /\ release_db_connection(t, exc[t] \in {"InterfaceError", "OperationalError"})
            /\ tx' = [tx EXCEPT ![t] = NoTx]
       ELSE UNCHANGED <<poolVars, released, tx>>
  /\ pc' = [pc EXCEPT ![t] = "done"]
  /\ UNCHANGED tasks
  /\ Track(t)
  /\ UNCHANGED <<nextId, clock, nreq, req, conn, rowcount, exc, resp, prev,
                 valVars, logVars, opened>>

\* Finally with the release made only when no exception was raised
FinallyLeaksOnError(t) ==
  /\ pc[t] = "finally"
  /\ IF conn[t] /\ exc[t] = "none"
       THEN /\ release_db_connection(t, FALSE)
            /\ tx' = [tx EXCEPT ![t] = NoTx]
       ELSE UNCHANGED <<poolVars, released, tx>>
  /\ pc' = [pc EXCEPT ![t] = "done"]
  /\ UNCHANGED tasks
  /\ Track(t)
  /\ UNCHANGED <<nextId, clock, nreq, req, conn, rowcount, exc, resp, prev,
                 valVars, logVars, opened>>

\* finally: if conn: release_db_connection(conn) (126-128, 155-157, 176-178);
\* putconn rolls back a transaction left open, or closes the connection
Finally(t) ==
  /\ pc[t] = "finally"
  /\ IF conn[t]
       THEN /\ release_db_connection(t, exc[t] \in {"InterfaceError", "OperationalError"})
            /\ tx' = [tx EXCEPT ![t] = NoTx]
       ELSE UNCHANGED <<poolVars, released, tx>>
  /\ pc' = [pc EXCEPT ![t] = "done"]
  /\ UNCHANGED tasks
  /\ Track(t)
  /\ UNCHANGED <<nextId, clock, nreq, req, conn, rowcount, exc, resp, prev,
                 valVars, logVars, opened>>

\* The response is sent and the thread takes the next request
Return(t) ==
  /\ pc[t] = "done"
  /\ prev' = [prev EXCEPT ![t] = [op |-> req[t].op, id |-> req[t].id,
                                  data |-> req[t].data, status |-> resp[t].status]]
  /\ pc' = [pc EXCEPT ![t] = "idle"]
  /\ req' = [req EXCEPT ![t] = NoReq]
  /\ conn' = [conn EXCEPT ![t] = FALSE]
  /\ rowcount' = [rowcount EXCEPT ![t] = 0 - 1]
  /\ exc' = [exc EXCEPT ![t] = "none"]
  /\ resp' = [resp EXCEPT ![t] = NoResp]
  /\ released' = [released EXCEPT ![t] = 0]
  /\ wrote' = [wrote EXCEPT ![t] = FALSE]
  /\ logged' = [logged EXCEPT ![t] = ""]
  /\ UNCHANGED <<tasks, nextId, poolVars, clock, nreq, tx, valVars, detail, opened>>

(* --------------------------- specifications ---------------------------- *)
NoVal == [status |-> 0 - 2, error |-> "unset"]

InitHandlers ==
  /\ tasks \in InitTables
  /\ nextId = Cardinality(DOMAIN tasks) + 1
  /\ used = {}
  /\ idle = MinConn
  /\ nreq = 0
  /\ pc = [t \in Threads |-> "idle"]
  /\ req = [t \in Threads |-> NoReq]
  /\ conn = [t \in Threads |-> FALSE]
  /\ tx = [t \in Threads |-> NoTx]
  /\ rowcount = [t \in Threads |-> 0 - 1]
  /\ exc = [t \in Threads |-> "none"]
  /\ resp = [t \in Threads |-> NoResp]
  /\ released = [t \in Threads |-> 0]
  /\ wrote = [t \in Threads |-> FALSE]
  /\ prev = [t \in Threads |-> NoPrev]
  /\ logged = [t \in Threads |-> ""]
  /\ opened = 0

Init ==
  /\ InitHandlers
  /\ clock = Today
  /\ vdata = NoFields
  /\ vres = NoVal
  /\ detail = ConnectionRefused

\* A create, update or delete arrives at thread t, drawn from the given
\* bodies and ids
Write(t, adds, updates, ids) ==
  \/ \E data \in adds : add_task(t, data)
  \/ \E id \in ids : \E data \in updates : update_task(t, id, data)
  \/ \E id \in ids : delete_task(t, id)

\* The steps of a handler once its request is in
Run(t) == GetConn(t) \/ Execute(t) \/ Commit(t) \/ Except(t) \/ Finally(t)

\* Concurrent requests, one in each thread of the server
ConcAdds == {PValid, PShortName}
ConcUpdates == {Field("progress", JInt(50))}
ConcIds == {1}
Next ==
  \E t \in Threads :
    \/ Write(t, ConcAdds, ConcUpdates, ConcIds)
    \/ get_tasks(t)
    \/ Run(t)

Spec == Init /\ [][Next]_vars

\* Concurrent writes, every handler run to its return: a step of a request
\* that has started is taken in the end
FairNext ==
  \E t \in Threads :
    \/ Write(t, {PValid}, ConcUpdates, ConcIds)
    \/ Run(t)

\* The table holds one task when the requests arrive
FairInit == Init /\ tasks = (1 :> Row1)

FairSpec == FairInit /\ [][FairNext]_vars /\ \A t \in Threads : WF_vars(Run(t))

\* One client that issues its calls one after the other
SeqNext ==
  \/ Write(1, AddPayloads, UpdatePayloads, TaskIds)
  \/ get_tasks(1)
  \/ Run(1)
  \/ Return(1)

SeqSpec == Init /\ [][SeqNext]_vars

(* ----------------- validate_task_data on its own ----------------------- *)
A100 == Rep(<<"a">>, NameMax)
VNames ==
  { JNull, JStr(Ab), JStr(Abc), JStr(Ab \o <<"\n">>), JStr(Ab \o <<"!">>),
    JStr(Ab \o <<";">>), JStr(<<"a","-","-","b">>), JStr(<<"a"," ","(","b",")">>),
    JStr(<<"D","r","o","p">>), JStr(A100), JStr(A100 \o <<"a">>),
    JStr(A100 \o <<"\n">>) }
VPriorities ==
  { JNull, JStr(S_Low), JStr(S_Medium), JStr(S_High), JStr(<<"l","o","w">>) }
VDeadlines ==
  { JNull, JStr(<<>>), JInt(5),
    JStr(Strftime(<<2024, 2, 28>>)), JStr(Strftime(<<2024, 2, 29>>)),
    JStr(Strftime(<<2024, 3, 1>>)), JStr(Strftime(<<2023, 2, 29>>)),
    JStr(<<"2","0","2","4","-","2","-","2","9">>),
    JStr(<<"2","0","2","4","0","2","2","9">>),
    JStr(Strftime(<<2024, 2, 29>>) \o <<";">>) }
VAssignees == { JNull, JStr(<<"b","o","b">>), JStr(<<"S","e","l","e","c","t">>) }
\* The key absent, or present with one of the values
Opt(k, values) == {NoFields} \cup {Field(k, x) : x \in values}
VPayloads ==
  { n @@ p @@ d @@ a :
      n \in Opt("name", VNames), p \in Opt("priority", VPriorities),
      d \in Opt("deadline", VDeadlines), a \in Opt("assigned_to", VAssignees) }
VClocks == {[date |-> <<2024, 2, 29>>, tod |-> s] : s \in {0, 1, 43200, 86399}}

VInit ==
  /\ InitHandlers
  /\ tasks = EmptyTable
  /\ clock \in VClocks
  /\ vdata \in VPayloads
  /\ vres = NoVal
  /\ detail = ConnectionRefused

\* validation = validate_task_data(data) (line 100)
Validate ==
  /\ vres = NoVal
  /\ vres' = validate_task_data(vdata, clock)
  /\ UNCHANGED <<tasks, nextId, poolVars, clock, nreq, pc, req, conn, tx,
                 rowcount, exc, resp, released, wrote, prev, vdata,
                 logVars, opened>>

VSpec == VInit /\ [][Validate]_vars

(* ------------- one client creating a task and listing ------------------ *)
\* The client's create payload is any of VPayloads; the table is empty or
\* holds one task when it starts
CreateInit ==
  /\ InitHandlers
  /\ clock = Today
  /\ vdata \in VPayloads
  /\ vres = NoVal
  /\ detail = ConnectionRefused

CreateNext ==
  \/ add_task(1, vdata)
  \/ get_tasks(1)
  \/ Run(1)
  \/ Return(1)

CreateSpec == CreateInit /\ [][CreateNext]_vars

(* ------------- concurrent requests, the store's error text ------------- *)
\* The store words its errors in one of two ways
DetailInit ==
  /\ InitHandlers
  /\ clock = Today
  /\ vdata = NoFields
  /\ vres = NoVal
  /\ detail \in ErrorDetails

DetailSpec == DetailInit /\ [][Next]_vars

(* ------------- the non-pooled service (src/backend/app.py) ------------- *)
\* What the handlers of the non-pooled service leave alone
backendFrame == <<used, idle, released, wrote, prev, vdata, vres, detail, logged,
                  clock>>

\* validate_task_data of the non-pooled service (37-49): name, priority and
\* deadline, no denylist
backend_validate_task_data(data, now) ==
  IF NameCheck(data) # Accept THEN NameCheck(data)
  ELSE IF PriorityCheck(data) # Accept THEN PriorityCheck(data)
  ELSE DeadlineCheck(data, now)

\* get_db_connection() (27-34): psycopg2.connect opens a connection of its own
backend_get_db_connection(t) ==
  /\ opened' = opened + 1
  /\ conn' = [conn EXCEPT ![t] = TRUE]

\* add_task, lines 77-79
backend_add_task(t, data) ==
  /\ Arrive(t, [op |-> "add", id |-> 0, data |-> data])
  /\ LET validation == backend_validate_task_data(data, clock) IN
       IF validation = Raised
         THEN /\ Answer(t, internal_error)
              /\ exc' = [exc EXCEPT ![t] = "TypeError"]
       ELSE IF validation # Accept
         THEN /\ Answer(t, Response(400, validation.error))
              /\ UNCHANGED exc
       ELSE /\ pc' = [pc EXCEPT ![t] = "connect"]
            /\ UNCHANGED <<resp, exc>>
  /\ UNCHANGED <<tasks, nextId, conn, tx, rowcount, opened, backendFrame>>

\* update_task, lines 101-103
backend_update_task(t, id, data) ==
  /\ Arrive(t, [op |-> "update", id |-> id, data |-> data])
  /\ IF Has(data, "progress") /\ ~IsInt(data["progress"])
       THEN /\ Answer(t, internal_error)
            /\ exc' = [exc EXCEPT ![t] = "TypeError"]
     ELSE IF ProgressOutOfRange(data)
       THEN /\ Answer(t, Response(400, "Progress must be between 0-100"))
            /\ UNCHANGED exc
     ELSE /\ pc' = [pc EXCEPT ![t] = "connect"]
          /\ UNCHANGED <<resp, exc>>
  /\ UNCHANGED <<tasks, nextId, conn, tx, rowcount, opened, backendFrame>>

\* delete_task, line 122
backend_delete_task(t, id) ==
  /\ Arrive(t, [op |-> "delete", id |-> id, data |-> NoFields])
  /\ pc' = [pc EXCEPT ![t] = "connect"]
  /\ UNCHANGED <<tasks, nextId, conn, tx, rowcount, resp, exc, opened, backendFrame>>

\* get_tasks, line 60
backend_get_tasks(t) ==
  /\ Arrive(t, [op |-> "list", id |-> 0, data |-> NoFields])
  /\ pc' = [pc EXCEPT ![t] = "connect"]
  /\ UNCHANGED <<tasks, nextId, conn, tx, rowcount, resp, exc, opened, backendFrame>>

\* conn = get_db_connection() (62, 82, 106, 124): a connection, or
\* OperationalError when the store cannot be reached
BackendConnect(t) ==
  /\ pc[t] = "connect"
  /\ \/ /\ backend_get_db_connection(t)
        /\ pc' = [pc EXCEPT ![t] = "execute"]
        /\ UNCHANGED exc
     \/ /\ exc' = [exc EXCEPT ![t] = "OperationalError"]
        /\ pc' = [pc EXCEPT ![t] = "except"]
        /\ UNCHANGED <<conn, opened>>
  /\ UNCHANGED <<tasks, nextId, nreq, req, tx, rowcount, resp, backendFrame>>

\* The row of the INSERT of add_task (84-90): data['assigned_to'], and None
\* for a deadline that is absent or falsy
BackendInsertRow(data) ==
  [name |-> data["name"].v,
   progress |-> Get(data, "progress", JInt(0)).v,
   assigned_to |-> data["assigned_to"],
   deadline |-> IF Truthy(Get(data, "deadline", JNull))
                  THEN ToDate(data["deadline"]) ELSE NoDate,
   priority |-> data["priority"].v]

\* cursor.execute(INSERT ... RETURNING id); cursor.fetchone() (83-91):
\* data['assigned_to'] raises KeyError when the payload has no assignee
BackendInsert(t) ==
  LET data == req[t].data IN
  IF ~Has(data, "assigned_to")
    THEN /\ exc' = [exc EXCEPT ![t] = "KeyError"]
         /\ pc' = [pc EXCEPT ![t] = "except"]
         /\ UNCHANGED <<tx, nextId, rowcount, resp>>
    ELSE
      \/ /\ tx' = [tx EXCEPT ![t] = OpenTx(nextId, FALSE, BackendInsertRow(data))]
         /\ nextId' = nextId + 1
         /\ rowcount' = [rowcount EXCEPT ![t] = 1]
         /\ pc' = [pc EXCEPT ![t] = "commit"]
         /\ UNCHANGED <<exc, resp>>
      \/ /\ \E e \in StoreErrors : Raise(t, e)
         /\ UNCHANGED <<nextId, rowcount, resp>>

\* cursor.execute(UPDATE ...) and the test of cursor.rowcount (107-113)
BackendUpdate(t) ==
  LET data == req[t].data
      id == req[t].id
  IN
  IF ~Has(data, "progress")
    THEN /\ exc' = [exc EXCEPT ![t] = "KeyError"]
         /\ pc' = [pc EXCEPT ![t] = "except"]
         /\ UNCHANGED <<tx, nextId, rowcount, resp>>
    ELSE
      \/ /\ ~RowLocked(t, id)
         /\ IF id \in DOMAIN tasks
              THEN /\ tx' = [tx EXCEPT ![t] = OpenTx(id, FALSE,
                                [tasks[id] EXCEPT !.progress = data["progress"].v])]
                   /\ rowcount' = [rowcount EXCEPT ![t] = 1]
                   /\ pc' = [pc EXCEPT ![t] = "commit"]
                   /\ UNCHANGED resp
              ELSE /\ tx' = [tx EXCEPT ![t] = IdleTx]
                   /\ rowcount' = [rowcount EXCEPT ![t] = 0]
                   /\ resp' = [resp EXCEPT ![t] = Response(404, "Task not found")]
                   /\ pc' = [pc EXCEPT ![t] = "close"]
         /\ UNCHANGED <<exc, nextId>>
      \/ /\ \E e \in StoreErrors : Raise(t, e)
         /\ UNCHANGED <<nextId, rowcount, resp>>

\* cursor.execute(DELETE ...) and the test of cursor.rowcount (125-130)
BackendDelete(t) ==
  LET id == req[t].id IN
  \/ /\ ~RowLocked(t, id)
     /\ IF id \in DOMAIN tasks
          THEN /\ tx' = [tx EXCEPT ![t] = OpenTx(id, TRUE, NoRow)]
               /\ rowcount' = [rowcount EXCEPT ![t] = 1]
               /\ pc' = [pc EXCEPT ![t] = "commit"]
               /\ UNCHANGED resp
          ELSE /\ tx' = [tx EXCEPT ![t] = IdleTx]
               /\ rowcount' = [rowcount EXCEPT ![t] = 0]
               /\ resp' = [resp EXCEPT ![t] = Response(404, "Task not found")]
               /\ pc' = [pc EXCEPT ![t] = "close"]
     /\ UNCHANGED <<exc, nextId>>
  \/ /\ \E e \in StoreErrors : Raise(t, e)
     /\ UNCHANGED <<nextId, rowcount, resp>>

\* cursor.execute(SELECT ... ORDER BY id), fetchall and the deadlines as text
\* (63-68)
BackendSelect(t) ==
  \/ /\ tx' = [tx EXCEPT ![t] = IdleTx]
     /\ rowcount' = [rowcount EXCEPT ![t] = Cardinality(DOMAIN tasks)]
     /\ resp' = [resp EXCEPT ![t] =
          [status |-> 200, body |-> "tasks", id |-> 0,
           rows |-> [n \in 1..Cardinality(DOMAIN tasks) |->
                      TaskJson(SortedIds(DOMAIN tasks)[n],
                               tasks[SortedIds(DOMAIN tasks)[n]])]]]
     /\ pc' = [pc EXCEPT ![t] = "close"]
     /\ UNCHANGED <<exc, nextId>>
  \/ /\ \E e \in StoreErrors : Raise(t, e)
     /\ UNCHANGED <<nextId, rowcount, resp>>

BackendExecute(t) ==
  /\ pc[t] = "execute"
  /\ CASE req[t].op = "add" -> BackendInsert(t)
       [] req[t].op = "list" -> BackendSelect(t)
       [] req[t].op = "update" -> BackendUpdate(t)
       [] OTHER -> BackendDelete(t)
  /\ UNCHANGED <<tasks, nreq, req, conn, opened, backendFrame>>

\* conn.commit() (92, 114, 131)
BackendCommit(t) ==
  /\ pc[t] = "commit"
  /\ \/ /\ tasks' = Apply(tasks, tx[t])
        /\ tx' = [tx EXCEPT ![t] = NoTx]
        /\ resp' = [resp EXCEPT ![t] = SuccessResponse(t)]
        /\ pc' = [pc EXCEPT ![t] = "close"]
        /\ UNCHANGED exc
     \/ /\ \E e \in StoreErrors :
             /\ exc' = [exc EXCEPT ![t] = e]
             /\ tx' = [tx EXCEPT ![t] = NoTx]
        /\ pc' = [pc EXCEPT ![t] = "except"]
        /\ UNCHANGED <<tasks, resp>>
  /\ UNCHANGED <<nextId, nreq, req, conn, rowcount, opened, backendFrame>>

\* except Exception as e (72-73, 96-97, 118-119, 135-136): the answer carries
\* str(e); the connection is neither rolled back nor closed
BackendExcept(t) ==
  /\ pc[t] = "except"
  /\ resp' = [resp EXCEPT ![t] = Response(500, ErrorText(t))]
  /\ pc' = [pc EXCEPT ![t] = "done"]
  /\ UNCHANGED <<tasks, nextId, nreq, req, conn, tx, rowcount, exc, opened,
                 backendFrame>>

\* cursor.close(); conn.close() and the return (69-71, 93-95, 111-113,
\* 115-117, 128-130, 132-134); closing ends the transaction left open
BackendClose(t) ==
  /\ pc[t] = "close"
  /\ opened' = opened - 1
  /\ tx' = [tx EXCEPT ![t] = NoTx]
  /\ pc' = [pc EXCEPT ![t] = "done"]
  /\ UNCHANGED <<tasks, nextId, nreq, req, conn, rowcount, exc, resp, backendFrame>>

\* The response is sent and the thread takes the next request; a connection
\* the handler did not close stays open, left to the garbage collector
BackendReturn(t) ==
  /\ pc[t] = "done"
  /\ pc' = [pc EXCEPT ![t] = "idle"]
  /\ req' = [req EXCEPT ![t] = NoReq]
  /\ conn' = [conn EXCEPT ![t] = FALSE]
  /\ tx' = [tx EXCEPT ![t] = NoTx]
  /\ rowcount' = [rowcount EXCEPT ![t] = 0 - 1]
  /\ exc' = [exc EXCEPT ![t] = "none"]
  /\ resp' = [resp EXCEPT ![t] = NoResp]
  /\ UNCHANGED <<tasks, nextId, nreq, opened, backendFrame>>

\* The bodies of the POST requests: without assignee, with one, rejected
PAssigned == PValid @@ Field("assigned_to", JStr(<<"b","o","b">>))
BackendAdds == {PValid, PAssigned, PShortName}

BackendRun(t) ==
  \/ BackendConnect(t)
  \/ BackendExecute(t)
  \/ BackendCommit(t)
  \/ BackendExcept(t)
  \/ BackendClose(t)

\* One client of the non-pooled service, its calls one after the other
BackendNext ==
  \/ \E data \in BackendAdds : backend_add_task(1, data)
  \/ \E id \in TaskIds : \E data \in UpdatePayloads : backend_update_task(1, id, data)
  \/ \E id \in TaskIds : backend_delete_task(1, id)
  \/ backend_get_tasks(1)
  \/ BackendRun(1)
  \/ BackendReturn(1)

BackendSpec == Init /\ [][BackendNext]_vars

(* ------------------------------ claims --------------------------------- *)
Writes == {"add", "update", "delete"}
Finished(t) == pc[t] = "done"

\* C1: every connection a handler obtains from get_db_connection is handed to
\* release_db_connection exactly once: never twice, a connection obtained and
\* not yet released is the one checked out for the thread, and a handler that
\* has finished (200/201, 404 or 500) has released once iff it obtained one.
C1_ReleasedExactlyOnce ==
  \A t \in Threads :
    /\ released[t] <= (IF conn[t] THEN 1 ELSE 0)
    /\ t \in used <=> (conn[t] /\ released[t] = 0)
    /\ Finished(t) => released[t] = (IF conn[t] THEN 1 ELSE 0)

\* Two requests have finished, one not found and one with a store error, each
\* having obtained a connection and released it once.
C1_Witness ==
  \E t, u \in Threads :
    /\ Finished(t) /\ resp[t].status = 404 /\ conn[t] /\ released[t] = 1
    /\ Finished(u) /\ resp[u].status = 500 /\ conn[u] /\ released[u] = 1

\* C2 (as claimed): no request fails because the pool is exhausted; a request
\* that finds no free connection waits in acquire.
C2_NoRequestFailsOnExhaustion ==
  \A t \in Threads : exc[t] # "PoolError"

\* C3: under weak fairness of each request's steps, a write that has acquired
\* a connection eventually reaches Released, on the commit branch and on the
\* failure branch, whatever is raised in between.
C3_EventuallyReleased ==
  \A t \in Threads :
    (t \in used /\ req[t].op \in Writes)
      ~> (Finished(t) /\ released[t] = 1 /\ t \notin used)

\* A write has been released after an exception raised once it held its
\* connection, while another has been released after its commit.
C3_Witness ==
  \E t, u \in Threads :
    /\ Finished(t) /\ req[t].op \in Writes /\ released[t] = 1
    /\ exc[t] \in {"DatabaseError", "InterfaceError"}
    /\ Finished(u) /\ req[u].op \in Writes /\ released[u] = 1
    /\ resp[u].status \in {200, 201}

\* C4 (as claimed): after any sequence of requests every stored row has a
\* progress in [0,100].
C4_ProgressInRange ==
  \A id \in DOMAIN tasks : tasks[id].progress \in 0..100

\* C5: a write that raised after it had acquired its connection is answered
\* 500, no step of it has changed the committed rows, nothing of its
\* transaction is left pending, and its connection is back in the pool: only
\* requests still running hold connections.
C5_FailureLeavesNoTrace ==
  \A t \in Threads :
    (Finished(t) /\ req[t].op \in Writes /\ conn[t] /\ exc[t] # "none") =>
      /\ resp[t].status = 500
      /\ ~wrote[t]
      /\ tx[t] = NoTx
      /\ released[t] = 1
      /\ t \notin used
      /\ \A u \in used : pc[u] \in {"execute", "commit", "except", "finally"}

\* An update found its row, its commit raised, and the request has finished.
C5_Witness ==
  \E t \in Threads :
    /\ Finished(t) /\ req[t].op = "update" /\ rowcount[t] = 1
    /\ exc[t] = "DatabaseError" /\ resp[t].status = 500
    /\ req[t].id \in DOMAIN tasks

\* C6: the step in which an update arrives with a progress below 0 or above
\* 100 answers 400, for every id, and leaves the rows and the pool as they
\* were; the handler holds no connection.
C6_Arrives(t) ==
  /\ pc[t] = "idle"
  /\ req'[t].op = "update"
  /\ Has(req'[t].data, "progress")
  /\ IsInt(req'[t].data["progress"])
  /\ (req'[t].data["progress"].v < 0 \/ req'[t].data["progress"].v > 100)

C6_OutOfRangeRejected ==
  [][\A t \in Threads :
       C6_Arrives(t) =>
         /\ pc'[t] = "done"
         /\ resp'[t].status = 400
         /\ ~conn'[t]
         /\ UNCHANGED <<tasks, used, idle>>]_vars

\* An update of a stored row with progress 101 has been answered 400.
C6_Witness ==
  \E t \in Threads :
    /\ Finished(t) /\ req[t].op = "update" /\ req[t].id \in DOMAIN tasks
    /\ Has(req[t].data, "progress") /\ req[t].data["progress"].v = 101
    /\ resp[t].status = 400

\* C7: a create whose payload validate_task_data rejects is answered 400 in
\* the step it arrives: it never obtains a connection, runs no statement and
\* changes no row.
C7_RejectedBeforeAcquire ==
  \A t \in Threads :
    (req[t].op = "add" /\ validate_task_data(req[t].data, clock).status = 400) =>
      /\ Finished(t)
      /\ resp[t] = Response(400, validate_task_data(req[t].data, clock).error)
      /\ ~conn[t] /\ t \notin used /\ released[t] = 0
      /\ rowcount[t] = 0 - 1 /\ tx[t] = NoTx /\ ~wrote[t]

\* A create has been rejected while another request holds the connection.
C7_Witness ==
  \E t, u \in Threads :
    /\ Finished(t) /\ req[t].op = "add" /\ resp[t].status = 400
    /\ u \in used

\* The date order of the claims: d1 strictly before d2
DateBefore(d1, d2) ==
  \/ d1[1] < d2[1]
  \/ d1[1] = d2[1] /\ d1[2] < d2[2]
  \/ d1[1] = d2[1] /\ d1[2] = d2[2] /\ d1[3] < d2[3]

OtherFieldsValid(data) ==
  NameCheck(data) = Accept /\ PriorityCheck(data) = Accept /\ InjectionCheck(data) = Accept

\* C8 (as claimed): with the other fields valid and a deadline that parses,
\* validate_task_data rejects iff the deadline date is strictly before the
\* current UTC date, at every time of day.
C8_DeadlineByDate ==
  (/\ vres # NoVal
   /\ OtherFieldsValid(vdata)
   /\ Has(vdata, "deadline") /\ IsStr(vdata["deadline"])
   /\ Strptime(vdata["deadline"].v) # NoDate) =>
     IF DateBefore(Strptime(vdata["deadline"].v), clock.date)
       THEN vres = Reject(ErrPast)
       ELSE vres = Accept

\* C9: an update or delete whose statement matched no row is answered 404, has
\* changed no row and has released its connection; the statement matches no
\* row exactly when the id is not stored; and the same call issued again right
\* after a 404 is answered 404 again, the rows unchanged.
SameCall(t) ==
  prev[t].op = req[t].op /\ prev[t].id = req[t].id /\ prev[t].data = req[t].data

C9_Statement(t) ==
  /\ pc[t] = "execute" /\ req[t].op \in {"update", "delete"}
  /\ pc'[t] \in {"commit", "finally"}

NameRuleFails(data) ==
  \/ ~Has(data, "name")
  \/ Len(data["name"].v) < 3
  \/ Len(data["name"].v) > 100
  \/ \E i \in 1..Len(data["name"].v) : ~NameClass(data["name"].v[i])

\* C10 (as claimed): the checks run in the order name, priority, deadline
\* format, deadline in the past, denylist, the first that fails gives the 400,
\* and None is returned iff none fails; a name shorter than 3 or longer than
\* 100 characters gets the name error whatever the other fields are.
C10_FirstFailureWins ==
  (/\ vres # NoVal
   /\ Has(vdata, "name") => IsStr(vdata["name"])
   /\ Has(vdata, "deadline") => ~IsInt(vdata["deadline"])) =>
     vres = IF NameRuleFails(vdata) THEN Reject(ErrName)
            ELSE IF PriorityCheck(vdata) # Accept THEN Reject(ErrPriority)
            ELSE IF DeadlineCheck(vdata, clock) # Accept THEN DeadlineCheck(vdata, clock)
            ELSE InjectionCheck(vdata)

\* The denylist of the claim: the value contains ';', '--' or a keyword
Denylisted(data) ==
  \E k \in DOMAIN data : IsStr(data[k]) /\ InjectionSearch(data[k].v)

\* C11 (as claimed): a create whose payload has a string field containing
\* ';', '--' or, in any case, union, select, insert, update, delete or drop is
\* answered 400 and inserts no row, whatever its other fields are.
C11_DenylistedRejected ==
  \A t \in Threads :
    (Finished(t) /\ req[t].op = "add" /\ Denylisted(req[t].data)) =>
      /\ resp[t].status = 400
      /\ ~wrote[t]

\* A create payload that is valid by the rules of the specification and
\* leaves out progress and assigned_to; the deadline, when supplied, is a
\* date not before today
ValidCreate(data, today) ==
  /\ Has(data, "name") /\ IsStr(data["name"]) /\ ~NameRuleFails(data)
  /\ PriorityCheck(data) = Accept
  /\ ~Denylisted(data)
  /\ ~Has(data, "progress") /\ ~Has(data, "assigned_to")
  /\ Has(data, "deadline") =>
       /\ IsStr(data["deadline"])
       /\ Strptime(data["deadline"].v) # NoDate
       /\ ~DateBefore(Strptime(data["deadline"].v), today)

\* The task the claim expects in the list for a created payload
Created(id, data) ==
  [id |-> id, name |-> data["name"].v, progress |-> 0, assigned_to |-> JNull,
   deadline |-> Get(data, "deadline", JNull), priority |-> data["priority"].v]

\* C12 (as claimed): a valid create without progress and assigned_to that the
\* store does not fail is answered 201 with an id no stored row has, and the
\* list that follows holds exactly one task of that id, with the supplied
\* name, priority and deadline, progress 0 and assigned_to null.
C12_CreatedThenListed ==
  /\ [](\A t \in Threads :
          /\ (/\ Finished(t) /\ req[t].op = "add" /\ exc[t] = "none"
              /\ ValidCreate(req[t].data, clock.date)) =>
               /\ resp[t].status = 201
               /\ resp[t].id = nextId - 1
               /\ resp[t].id \in DOMAIN tasks
          /\ (/\ Finished(t) /\ req[t].op = "list" /\ resp[t].status = 200
              /\ prev[t].op = "add" /\ prev[t].status = 201
              /\ ValidCreate(prev[t].data, clock.date)) =>
               /\ Cardinality({n \in DOMAIN resp[t].rows :
                                 resp[t].rows[n].id = nextId - 1}) = 1
               /\ \E n \in DOMAIN resp[t].rows :
                    resp[t].rows[n] = Created(nextId - 1, prev[t].data))
  /\ [][\A t \in Threads :
          (pc[t] = "commit" /\ req[t].op = "add" /\ resp'[t].status = 201) =>
            resp'[t].id \notin DOMAIN tasks]_vars

\* C13: a list that has finished changed no row and released the connection
\* it obtained; without a store error it is answered 200 with the committed
\* rows, one task for each, in strictly ascending order of id; with a store
\* error, at getconn or at the query, it is answered 500 with the
\* retrieval-failure message.
C13_ListOrderedReadOnly ==
  \A t \in Threads :
    (Finished(t) /\ req[t].op = "list") =>
      /\ ~wrote[t]
      /\ released[t] = (IF conn[t] THEN 1 ELSE 0)
      /\ t \notin used
      /\ IF exc[t] = "none"
           THEN /\ resp[t].status = 200
                /\ Len(resp[t].rows) = Cardinality(DOMAIN tasks)
                /\ \A n \in DOMAIN resp[t].rows :
                     /\ resp[t].rows[n].id \in DOMAIN tasks
                     /\ resp[t].rows[n] =
                          TaskJson(resp[t].rows[n].id, tasks[resp[t].rows[n].id])
                /\ \A m, n \in DOMAIN resp[t].rows :
                     m < n => resp[t].rows[m].id < resp[t].rows[n].id
           ELSE resp[t] = Response(500, "Failed to retrieve tasks")

\* A list has returned two tasks right after a list that the store failed
\* with the connection obtained and released.
C13_Witness ==
  \E t \in Threads :
    /\ Finished(t) /\ req[t].op = "list" /\ resp[t].status = 200
    /\ Len(resp[t].rows) >= 2 /\ released[t] = 1
    /\ prev[t].op = "list" /\ prev[t].status = 500

\* The fixed messages of the 500 answers (lines 71, 92, 125, 154, 175)
GenericMessages ==
  {"Internal server error", "Failed to retrieve tasks", "Failed to create task",
   "Failed to update task", "Failed to delete task"}

\* The exceptions that leave a handler and are answered by the framework
Escaped == {"TypeError", "AttributeError", "InterfaceError"}

\* C14: the body of every 500 answer of the four handlers is one of the fixed
\* messages, never the text of the store's error, and it is determined by the
\* operation and by whether the exception left the handler: runs that differ
\* only in the text of the store's errors are answered alike.
C14_GenericFailure ==
  \A t \in Threads :
    (Finished(t) /\ resp[t].status = 500) =>
      /\ resp[t].body \in GenericMessages
      /\ resp[t].body \notin ErrorDetails
      /\ resp[t] = Response(500, IF exc[t] \in Escaped
                                   THEN "Internal server error"
                                   ELSE FailureBody(t))

\* A write was answered 500 after an error of the store with the second
\* text, which its handler logged, and another after the pool was exhausted.
C14_Witness ==
  \E t, u \in Threads :
    /\ Finished(t) /\ req[t].op \in Writes /\ resp[t].status = 500
    /\ exc[t] = "DatabaseError" /\ logged[t] = NoSuchRelation
    /\ Finished(u) /\ resp[u].status = 500 /\ exc[u] = "AttributeError"

\* C15 (as claimed): an update or delete whose statement affected no row
\* never commits and has rolled its transaction back when its 404 is set for
\* return, before the connection is released: from the 404 on, no
\* transaction is open on its connection.
C15_RollbackBeforeRelease ==
  \A t \in Threads :
    (req[t].op \in {"update", "delete"} /\ rowcount[t] = 0) =>
      /\ pc[t] # "commit"
      /\ resp[t].status = 404 => ~tx[t].open

\* C16 (as claimed): a create, update or delete in which something was
\* raised once it went to the store, the failure to obtain a connection
\* included, is answered by its own except clause with the operation's 500
\* message, the transaction rolled back; no exception leaves the handler.
C16_FailureCaughtInside ==
  \A t \in Threads :
    (Finished(t) /\ req[t].op \in Writes /\ exc[t] \notin {"none", "TypeError"}) =>
      /\ resp[t] = Response(500, FailureBody(t))
      /\ exc[t] \notin Escaped
      /\ tx[t] = NoTx

\* The step in which an update is committed and answered 200
UpdateCommitted(t) ==
  pc[t] = "commit" /\ req[t].op = "update" /\ resp'[t].status = 200

\* C17: the step that commits update_task(id, p) leaves the set of ids as it
\* was and changes nothing but the progress of row id, which becomes p; no
\* other step of an update changes a row.
C17_UpdateChangesProgressOnly ==
  [][\A t \in Threads :
       /\ UpdateCommitted(t) =>
            /\ req[t].id \in DOMAIN tasks
            /\ DOMAIN tasks' = DOMAIN tasks
            /\ tasks' = [tasks EXCEPT ![req[t].id].progress = req[t].data["progress"].v]
       /\ (req[t].op = "update" /\ ~UpdateCommitted(t)) => UNCHANGED tasks]_vars

\* An update to progress 50 of one of two or more stored tasks has been
\* committed.
C17_Witness ==
  \E t \in Threads :
    /\ Finished(t) /\ req[t].op = "update" /\ resp[t].status = 200 /\ wrote[t]
    /\ Cardinality(DOMAIN tasks) >= 2
    /\ tasks[req[t].id].progress = 50

\* The operations in flight between their acquire and their release
InFlight ==
  {t \in Threads : conn[t] /\ pc[t] \in {"execute", "commit", "except", "finally"}}

\* C18: in every reachable state the connections checked out of the pool are
\* at most maxconn, as many as the operations in flight between their acquire
\* and their release, and each is held by one of these.
C18_CheckedOutBounded ==
  /\ Cardinality(used) <= MaxConn
  /\ Cardinality(used) = Cardinality(InFlight)
  /\ used = InFlight

\* Every connection of the pool is checked out while one more request has
\* asked for one and was refused.
C18_Witness ==
  /\ Cardinality(used) = MaxConn
  /\ \E t \in Threads : t \notin used /\ exc[t] = "PoolError"

\* C19: an update whose payload has no progress field is not answered 400; it
\* goes on to the store, changes no row, leaves no transaction open and has
\* released the connection it obtained when it finishes.
C19_MissingProgressNotRejected ==
  \A t \in Threads :
    (req[t].op = "update" /\ ~Has(req[t].data, "progress")) =>
      /\ resp[t].status # 400
      /\ ~wrote[t]
      /\ Finished(t) =>
           /\ released[t] = (IF conn[t] THEN 1 ELSE 0)
           /\ t \notin used
           /\ tx[t] = NoTx

\* An update without progress of a stored task has obtained a connection,
\* released it and finished, answered with the failure of the update.
C19_Witness ==
  \E t \in Threads :
    /\ Finished(t) /\ req[t].op = "update" /\ req[t].data = NoFields
    /\ req[t].id \in DOMAIN tasks
    /\ conn[t] /\ released[t] = 1
    /\ resp[t] = Response(500, "Failed to update task")

\* The handlers of the non-pooled service that hold a connection and have
\* not returned
BackendInFlight ==
  {t \in Threads : conn[t] /\ pc[t] \in {"execute", "commit", "close", "except"}}

\* C20 (as claimed): in the non-pooled service every connection a handler
\* opened is closed when the handler returns, on the 200/201, the 404 and the
\* 500 exit: the only connections open are those of handlers still running.
C20_ClosedBeforeReturn ==
  opened = Cardinality(BackendInFlight)

====
